---- MODULE Spec2Model ----
(***************************************************************************)
(* Gabad-Blogs (src/main.py): a Flask blog with three tables (user,        *)
(* blog_posts, comments), a flask_login session principal per browser      *)
(* session, and the request handlers register, login, logout, show_post,   *)
(* make_post, edit_post and delete_post.                                   *)
(*                                                                         *)
(* Requests of different browser sessions run concurrently.  A handler is   *)
(* one action up to each point where it has read the database and will     *)
(* write it later: between the two, requests of other sessions may commit. *)
(* Each browser session has one request in flight at a time.               *)
(*                                                                         *)
(* An unhandled Python exception ends the request with status 500 and the  *)
(* scoped database session is discarded at teardown, so nothing the        *)
(* handler left uncommitted is stored.                                     *)
(*                                                                         *)
(* The database is the one DATABASE_URL names.  Two kinds are modelled:    *)
(* "sqlite" gives a new row the largest id of its table plus one and does  *)
(* not enforce foreign keys; "postgresql" gives it the next value of the   *)
(* table's sequence, which a rejected INSERT consumes too, and enforces    *)
(* foreign keys.                                                           *)
(***************************************************************************)
EXTENDS Integers, Sequences, FiniteSets, TLC

VARIABLES
    dialect,       \* the kind of database DATABASE_URL names
    user,          \* table "user": function id -> row
    user_seq,      \* postgresql: last value of the sequence of user.id
    blog_posts,    \* table "blog_posts": function id -> row
    post_seq,      \* postgresql: last value of the sequence of blog_posts.id
    comments,      \* table "comments": the rows in insertion order
    current_user,  \* flask_login principal of each browser session
    pending,       \* the request each browser session has in flight
    resp,          \* response of the request answered last
    deleted        \* history: the ids of the posts deleted and not given to a new post

vars == <<dialect, user, user_seq, blog_posts, post_seq, comments, current_user,
          pending, resp, deleted>>

----------------------------------------------------------------------------
(* Bounds of the model *)

MaxUsers == 2
MaxPosts == 2
MaxComments == 2

(* Inputs *)

Sessions == {"browser1", "browser2"}
Emails == {"a@x.com", "b@x.com", "c@x.com"}
Passwords == {"pw1", "pw2"}
Names == {"Alice"}
Salts == {"Zq3xYb1K"}
CommentTexts == {"nice"}
PostIds == 1..MaxPosts

\* CreatePostForm data: title, subtitle, img_url, body
PostForms ==
    { [title |-> "Hello", subtitle |-> "first",  img_url |-> "a.png", body |-> "<p>a</p>"],
      [title |-> "World", subtitle |-> "second", img_url |-> "b.png", body |-> "<p>b</p>"] }

\* values datetime.now() returns
Clock ==
    { [year |-> 2024, month |-> 4,  day |-> 5],
      [year |-> 2025, month |-> 12, day |-> 31] }

----------------------------------------------------------------------------
(* Values *)

\* a nullable column: NULL, or one value
NULL == {}
Ref(x) == {x}

\* the id the privileged principal has
AdminId == 1

\* flask_login.AnonymousUserMixin: is_authenticated is False and there is no id attribute
AnonymousUser == [is_authenticated |-> FALSE]

\* a User row loaded by load_user: UserMixin.is_authenticated is True
LoggedIn(uid) == [is_authenticated |-> TRUE, id |-> uid]

\* no request of the session is in flight
NoRequest == [op |-> "none"]

Dialects == {"sqlite", "postgresql"}

\* a table without rows
EmptyTable == [i \in {} |-> NULL]

\* what the client gets: the handler, the HTTP status, the redirect target or the
\* exception that ended the request, and the message flashed
Response(op, status, detail, flash) ==
    [op |-> op, status |-> status, detail |-> detail, flash |-> flash]

----------------------------------------------------------------------------
(* werkzeug.security *)

\* the salted one-way digest: distinct (salt, password) pairs give distinct digests
Pbkdf2Sha256(salt, password) == <<"pbkdf2_hmac", "sha256", salt, password>>

\* generate_password_hash(password, method="pbkdf2:sha256", salt_length=8): method$salt$digest
generate_password_hash(password, salt) ==
    [method |-> "pbkdf2:sha256", salt |-> salt, hashval |-> Pbkdf2Sha256(salt, password)]

\* a faulty variant: any password verifies
check_password_hash_any(pwhash, password) == pwhash.method = "pbkdf2:sha256"

\* check_password_hash(pwhash, password): recompute with the stored salt and compare
check_password_hash(pwhash, password) ==
    /\ pwhash.method = "pbkdf2:sha256"
    /\ Pbkdf2Sha256(pwhash.salt, password) = pwhash.hashval

----------------------------------------------------------------------------
(* datetime *)

MonthName ==
    <<"January", "February", "March", "April", "May", "June", "July",
      "August", "September", "October", "November", "December">>

\* %d: day of the month, zero padded to two digits
Pad2(n) == IF n < 10 THEN "0" \o ToString(n) ELSE ToString(n)

\* datetime.strftime("%B %d, %Y")
Strftime(d) == MonthName[d.month] \o " " \o Pad2(d.day) \o ", " \o ToString(d.year)

----------------------------------------------------------------------------
(* Queries *)

\* User.query.filter_by(email=email).first(): the row's id in a set, or NULL
FindByEmail(email) ==
    IF \E i \in DOMAIN user : user[i].email = email
    THEN Ref(CHOOSE i \in DOMAIN user : user[i].email = email)
    ELSE NULL

\* BlogPost.query.get(id): the id in a set, or NULL
GetPost(id) == IF id \in DOMAIN blog_posts THEN Ref(id) ELSE NULL

Max(S) == CHOOSE x \in S : \A y \in S : y <= x

\* the ids in ascending order
RECURSIVE SortedIds(_)
SortedIds(S) ==
    IF S = {} THEN <<>>
    ELSE LET m == Max(S) IN Append(SortedIds(S \ {m}), m)

\* the orders in which a SELECT without ORDER BY may return the rows with these
\* ids: sqlite scans the table by rowid; postgresql returns the rows as they lie
\* in the heap, where an UPDATE moves a row
RowOrders(S) ==
    IF dialect = "sqlite" THEN {SortedIds(S)}
    ELSE {o \in [1..Cardinality(S) -> S] : \A i, j \in 1..Cardinality(S) : o[i] = o[j] => i = j}

\* BlogPost.query.all(): the lists of posts the handler may render
get_all_posts ==
    {[i \in 1..Cardinality(DOMAIN blog_posts) |-> [id |-> o[i]] @@ blog_posts[o[i]]] :
        o \in RowOrders(DOMAIN blog_posts)}

\* the id the store gives a new row of a table
NewId(table, seq) ==
    IF dialect = "sqlite" THEN Max(DOMAIN table \cup {0}) + 1 ELSE seq + 1

\* the sequence of a table after an INSERT into it, stored or rejected
SeqAfterInsert(seq) == IF dialect = "sqlite" THEN seq ELSE seq + 1

\* the store checks foreign keys
ForeignKeysEnforced == dialect = "postgresql"

\* the table with one more row
Inserted(table, id, row) ==
    [i \in DOMAIN table \cup {id} |-> IF i = id THEN row ELSE table[i]]

\* a faulty variant: the email column without unique=True
UniqueEmailViolation_off(email) == FALSE

\* unique=True on user.email: the INSERT of a second row with the email is rejected
UniqueEmailViolation(email) == \E i \in DOMAIN user : user[i].email = email

\* unique=True on blog_posts.title: another row has the title
TitleTaken(title, except) ==
    \E i \in DOMAIN blog_posts : i \notin except /\ blog_posts[i].title = title

----------------------------------------------------------------------------
(* Initial state: db.create_all() on an empty database, no one logged in *)

Init ==
    /\ dialect \in Dialects
    /\ user = EmptyTable
    /\ user_seq = 0
    /\ blog_posts = EmptyTable
    /\ post_seq = 0
    /\ comments = <<>>
    /\ current_user = [s \in Sessions |-> AnonymousUser]
    /\ pending = [s \in Sessions |-> NoRequest]
    /\ resp = Response("none", "none", "", "")
    /\ deleted = {}

\* the requests in flight in handler op
InFlight(op) == {t \in Sessions : pending[t].op = op}

\* the request of the session is answered
Answered(s) == [pending EXCEPT ![s] = NoRequest]

----------------------------------------------------------------------------
(* register *)

\* a faulty variant: the duplicate check of line 106 never finds a row
EmailRegistered_off(email) == FALSE

\* User.query.filter_by(email=form.email.data).first() is truthy
EmailRegistered(email) == FindByEmail(email) # NULL

\* a faulty variant: the new user is logged in after the commit
InsertUser_login_user(s, email, password, name, salt) ==
    /\ user_seq' = SeqAfterInsert(user_seq)
    /\ IF UniqueEmailViolation(email)
       THEN /\ resp' = Response("register", "500", "IntegrityError", "")
            /\ UNCHANGED <<user, current_user>>
       ELSE /\ user' = Inserted(user, NewId(user, user_seq),
                                [email |-> email,
                                 password |-> generate_password_hash(password, salt),
                                 name |-> name])
            /\ current_user' = [current_user EXCEPT ![s] = LoggedIn(NewId(user, user_seq))]
            /\ resp' = Response("register", "302", "get_all_posts", "")

\* hash the password, add the User row, commit, redirect to the listing
InsertUser(s, email, password, name, salt) ==
    /\ user_seq' = SeqAfterInsert(user_seq)
    /\ IF UniqueEmailViolation(email)
       THEN /\ resp' = Response("register", "500", "IntegrityError", "")
            /\ UNCHANGED <<user, current_user>>
       ELSE /\ user' = Inserted(user, NewId(user, user_seq),
                                [email |-> email,
                                 password |-> generate_password_hash(password, salt),
                                 name |-> name])
            /\ resp' = Response("register", "302", "get_all_posts", "")
            /\ UNCHANGED current_user

\* the handler up to the duplicate check of line 106; a request that passes it
\* goes on in RegisterInsert
RegisterCheck(s, valid, email, password, name) ==
    /\ pending[s] = NoRequest
    /\ IF ~valid
       THEN /\ resp' = Response("register", "200", "register.html", "")
            /\ UNCHANGED pending
       ELSE IF EmailRegistered(email)
       THEN /\ resp' = Response("register", "302", "login",
                                "This email has been registered. Login with the email")
            /\ UNCHANGED pending
       ELSE /\ Cardinality(DOMAIN user) + Cardinality(InFlight("register")) < MaxUsers
            /\ pending' = [pending EXCEPT ![s] =
                    [op |-> "register", email |-> email, password |-> password, name |-> name]]
            /\ UNCHANGED resp
    /\ UNCHANGED <<dialect, user, user_seq, blog_posts, post_seq, comments, current_user,
                   deleted>>

\* the rest of the handler, lines 113 to 125, after other requests may have committed
RegisterInsert(s, salt) ==
    /\ pending[s].op = "register"
    /\ InsertUser(s, pending[s].email, pending[s].password, pending[s].name, salt)
    /\ pending' = Answered(s)
    /\ UNCHANGED <<dialect, blog_posts, post_seq, comments, deleted>>

----------------------------------------------------------------------------
(* login, logout *)

Login(s, valid, email, password) ==
    /\ pending[s] = NoRequest
    /\ IF ~valid
       THEN /\ resp' = Response("login", "200", "login.html", "")
            /\ UNCHANGED current_user
       ELSE IF FindByEmail(email) = NULL
       THEN /\ resp' = Response("login", "302", "login",
                                "This email does not exist. Please try again")
            /\ UNCHANGED current_user
       ELSE LET uid == CHOOSE i \in FindByEmail(email) : TRUE IN
            IF check_password_hash(user[uid].password, password)
            THEN /\ current_user' = [current_user EXCEPT ![s] = LoggedIn(uid)]
                 /\ resp' = Response("login", "302", "get_all_posts", "")
            ELSE /\ resp' = Response("login", "200", "login.html",
                                     "Password incorrect. Please try again")
                 /\ UNCHANGED current_user
    /\ UNCHANGED <<dialect, user, user_seq, blog_posts, post_seq, comments, pending, deleted>>

\* a faulty variant: logout without @login_required
login_required_off(principal) == TRUE

\* @login_required lets the request through
login_required(principal) == principal.is_authenticated

Logout(s) ==
    /\ pending[s] = NoRequest
    /\ IF ~login_required(current_user[s])
       THEN /\ resp' = Response("logout", "401", "Unauthorized", "")
            /\ UNCHANGED current_user
       ELSE /\ current_user' = [current_user EXCEPT ![s] = AnonymousUser]
            /\ resp' = Response("logout", "302", "get_all_posts", "")
    /\ UNCHANGED <<dialect, user, user_seq, blog_posts, post_seq, comments, pending, deleted>>

----------------------------------------------------------------------------
(* show_post *)

\* Comment(text=text, comment_author=current_user, user_comments=requested_post)
NewComment(principal, requested_post, text) ==
    [text |-> text, author_id |-> Ref(principal.id), post_id |-> requested_post]

\* render_template("post.html", post=requested_post, ...): the page; the template
\* is given None for an absent row, and a template that reads an attribute of an
\* attribute of post raises UndefinedError
RenderedPost(requested_post) ==
    IF requested_post = NULL
    THEN {Response("show_post", "200", "post.html", ""),
          Response("show_post", "500", "UndefinedError", "")}
    ELSE {Response("show_post", "200", "post.html", "")}

\* the handler up to the read of line 166 and, for a request that adds no comment,
\* to its answer.  submitted: comment_form.validate_on_submit()
ShowPostRead(s, index, submitted, text) ==
    /\ pending[s] = NoRequest
    /\ IF submitted
       THEN IF ~current_user[s].is_authenticated
            THEN /\ resp' = Response("show_post", "302", "login",
                                     "You need to login or register to comment.")
                 /\ UNCHANGED pending
            ELSE /\ Len(comments) + Cardinality(InFlight("show_post")) < MaxComments
                 /\ pending' = [pending EXCEPT ![s] =
                        [op |-> "show_post", index |-> index,
                         requested_post |-> GetPost(index), text |-> text]]
                 /\ UNCHANGED resp
       ELSE \* the redirect of line 187 is not returned: post.html is rendered with
            \* post=requested_post, which is None when the row is absent
            /\ resp' \in RenderedPost(GetPost(index))
            /\ UNCHANGED pending
    /\ UNCHANGED <<dialect, user, user_seq, blog_posts, post_seq, comments, current_user,
                   deleted>>

\* the INSERT of the comment names a post the table no longer has
CommentForeignKeyViolation(row) ==
    /\ ForeignKeysEnforced
    /\ row.post_id # NULL
    /\ ~(row.post_id \subseteq DOMAIN blog_posts)

\* lines 175 to 182: the comment is built from the post as it was read and committed
\* after other requests may have committed
ShowPostCommit(s) ==
    /\ pending[s].op = "show_post"
    /\ LET row == NewComment(current_user[s], pending[s].requested_post, pending[s].text) IN
       IF CommentForeignKeyViolation(row)
       THEN /\ resp' = Response("show_post", "500", "IntegrityError", "")
            /\ UNCHANGED comments
       ELSE /\ comments' = Append(comments, row)
            /\ resp' = Response("show_post", "302", "show_post", "")
    /\ pending' = Answered(s)
    /\ UNCHANGED <<dialect, user, user_seq, blog_posts, post_seq, current_user, deleted>>

----------------------------------------------------------------------------
(* admin_only and the handlers it wraps *)

\* decorated_function: current_user.id != 1 aborts with 403; the anonymous principal
\* has no id, so reading it raises AttributeError
admin_only(principal) ==
    IF ~principal.is_authenticated THEN "AttributeError"
    ELSE IF principal.id # AdminId THEN "abort403"
    ELSE "call"

\* the response of a request stopped in admin_only
Refused(op, gate) ==
    IF gate = "abort403"
    THEN Response(op, "403", "This page is not found at all", "")
    ELSE Response(op, "500", "AttributeError", "")

\* BlogPost(title=..., subtitle=..., date=now.strftime(...), body=..., img_url=..., author_id=...)
NewPost(form, now, principal) ==
    [title |-> form.title, subtitle |-> form.subtitle, date |-> Strftime(now),
     body |-> form.body, img_url |-> form.img_url, author_id |-> Ref(principal.id)]

\* the handler reads no row before its INSERT: one step
MakePost(s, valid, form, now) ==
    /\ pending[s] = NoRequest
    /\ IF admin_only(current_user[s]) # "call"
       THEN /\ resp' = Refused("make_post", admin_only(current_user[s]))
            /\ UNCHANGED <<blog_posts, post_seq, deleted>>
       ELSE IF ~valid
       THEN /\ resp' = Response("make_post", "200", "make-post.html", "")
            /\ UNCHANGED <<blog_posts, post_seq, deleted>>
       ELSE /\ post_seq' = SeqAfterInsert(post_seq)
            /\ post_seq' <= MaxPosts
            /\ IF TitleTaken(form.title, {})
               THEN /\ resp' = Response("make_post", "500", "IntegrityError", "")
                    /\ UNCHANGED <<blog_posts, deleted>>
               ELSE /\ NewId(blog_posts, post_seq) <= MaxPosts
                    /\ blog_posts' = Inserted(blog_posts, NewId(blog_posts, post_seq),
                                              NewPost(form, now, current_user[s]))
                    /\ deleted' = deleted \ {NewId(blog_posts, post_seq)}
                    /\ resp' = Response("make_post", "302", "get_all_posts", "")
    /\ UNCHANGED <<dialect, user, user_seq, comments, current_user, pending>>

\* edit_form.author.data: a User object, or form text
AuthorData == {[kind |-> "User", id |-> i] : i \in DOMAIN user} \cup {[kind |-> "str"]}

\* the attributes the assignments of lines 239 to 243 change in the post as it was
\* read: the column's new value in a set, or NULL for a column given the value it had
Changes(post, form, author) ==
    [title     |-> IF form.title # post.title THEN Ref(form.title) ELSE NULL,
     subtitle  |-> IF form.subtitle # post.subtitle THEN Ref(form.subtitle) ELSE NULL,
     img_url   |-> IF form.img_url # post.img_url THEN Ref(form.img_url) ELSE NULL,
     author_id |-> IF Ref(author.id) # post.author_id THEN Ref(Ref(author.id)) ELSE NULL,
     body      |-> IF form.body # post.body THEN Ref(form.body) ELSE NULL]

EditableColumns == {"title", "subtitle", "img_url", "author_id", "body"}

\* no attribute changed: the commit sends no UPDATE
NoChanges(changes) == \A c \in EditableColumns : changes[c] = NULL

\* a faulty variant: the UPDATE stamps the row with another date
EditedPost_redated(post, changes) ==
    [c \in DOMAIN post |->
        IF c = "date" THEN CHOOSE d \in {Strftime(n) : n \in Clock} : d # post.date
        ELSE IF c \in EditableColumns /\ changes[c] # NULL
        THEN CHOOSE v \in changes[c] : TRUE
        ELSE post[c]]

\* the UPDATE of the commit of line 244: it sets the changed columns of the stored row
EditedPost(post, changes) ==
    [c \in DOMAIN post |->
        IF c \in EditableColumns /\ changes[c] # NULL
        THEN CHOOSE v \in changes[c] : TRUE
        ELSE post[c]]

\* the handler up to the read of line 230 and the assignments of lines 239 to 243
EditPostRead(s, post_id, valid, form, author) ==
    /\ pending[s] = NoRequest
    /\ IF admin_only(current_user[s]) # "call"
       THEN /\ resp' = Refused("edit_post", admin_only(current_user[s]))
            /\ UNCHANGED pending
       ELSE IF GetPost(post_id) = NULL
       THEN \* post is None: post.title raises
            /\ resp' = Response("edit_post", "500", "AttributeError", "")
            /\ UNCHANGED pending
       ELSE IF ~valid
       THEN /\ resp' = Response("edit_post", "200", "make-post.html", "")
            /\ UNCHANGED pending
       ELSE IF author.kind # "User"
       THEN \* post.author takes a User only; the assignments before it are not committed
            /\ resp' = Response("edit_post", "500", "AttributeError", "")
            /\ UNCHANGED pending
       ELSE /\ pending' = [pending EXCEPT ![s] =
                    [op |-> "edit_post", post_id |-> post_id,
                     changes |-> Changes(blog_posts[post_id], form, author)]]
            /\ UNCHANGED resp
    /\ UNCHANGED <<dialect, user, user_seq, blog_posts, post_seq, comments, current_user,
                   deleted>>

\* the commit of line 244, after other requests may have committed
EditPostCommit(s) ==
    /\ pending[s].op = "edit_post"
    /\ LET post_id == pending[s].post_id
           changes == pending[s].changes IN
       IF NoChanges(changes)
       THEN /\ resp' = Response("edit_post", "302", "show_post", "")
            /\ UNCHANGED blog_posts
       ELSE IF post_id \notin DOMAIN blog_posts
       THEN \* the UPDATE matches no row
            /\ resp' = Response("edit_post", "500", "StaleDataError", "")
            /\ UNCHANGED blog_posts
       ELSE IF changes.title # NULL /\ \E t \in changes.title : TitleTaken(t, {post_id})
       THEN /\ resp' = Response("edit_post", "500", "IntegrityError", "")
            /\ UNCHANGED blog_posts
       ELSE /\ blog_posts' = [blog_posts EXCEPT ![post_id] = EditedPost(@, changes)]
            /\ resp' = Response("edit_post", "302", "show_post", "")
    /\ pending' = Answered(s)
    /\ UNCHANGED <<dialect, user, user_seq, post_seq, comments, current_user, deleted>>

\* the handler up to the read of line 254
DeletePostRead(s, post_id) ==
    /\ pending[s] = NoRequest
    /\ IF admin_only(current_user[s]) # "call"
       THEN /\ resp' = Refused("delete_post", admin_only(current_user[s]))
            /\ UNCHANGED pending
       ELSE IF GetPost(post_id) = NULL
       THEN \* db.session.delete(None)
            /\ resp' = Response("delete_post", "500", "UnmappedInstanceError", "")
            /\ UNCHANGED pending
       ELSE /\ pending' = [pending EXCEPT ![s] =
                    [op |-> "delete_post", stage |-> "read", post_id |-> post_id]]
            /\ UNCHANGED resp
    /\ UNCHANGED <<dialect, user, user_seq, blog_posts, post_seq, comments, current_user,
                   deleted>>

\* the flush of the commit of line 256 loads post.blog_comments
DeletePostSelect(s) ==
    /\ pending[s].op = "delete_post"
    /\ pending[s].stage = "read"
    /\ pending' = [pending EXCEPT ![s] =
            [op |-> "delete_post", stage |-> "flush", post_id |-> pending[s].post_id,
             blog_comments |-> {i \in 1..Len(comments) :
                                    comments[i].post_id = Ref(pending[s].post_id)}]]
    /\ UNCHANGED <<dialect, user, user_seq, blog_posts, post_seq, comments, current_user,
                   resp, deleted>>

\* the comments that were loaded are kept, their post_id set to NULL
Orphaned(cs, blog_comments) ==
    [i \in 1..Len(cs) |-> IF i \in blog_comments THEN [cs[i] EXCEPT !.post_id = NULL]
                          ELSE cs[i]]

\* the DELETE of the post leaves a comment that names it
PostForeignKeyViolation(cs, post_id) ==
    /\ ForeignKeysEnforced
    /\ post_id \in DOMAIN blog_posts
    /\ \E i \in 1..Len(cs) : cs[i].post_id = Ref(post_id)

\* the flush goes on: UPDATE of the comments loaded, DELETE of the post, COMMIT.
\* A DELETE that matches no row is a warning only.
DeletePostWrite(s) ==
    /\ pending[s].op = "delete_post"
    /\ pending[s].stage = "flush"
    /\ LET post_id == pending[s].post_id
           cs == Orphaned(comments, pending[s].blog_comments) IN
       IF PostForeignKeyViolation(cs, post_id)
       THEN \* the transaction is rolled back
            /\ resp' = Response("delete_post", "500", "IntegrityError", "")
            /\ UNCHANGED <<blog_posts, comments, deleted>>
       ELSE /\ comments' = cs
            /\ blog_posts' = [i \in DOMAIN blog_posts \ {post_id} |-> blog_posts[i]]
            /\ deleted' = deleted \cup ({post_id} \cap DOMAIN blog_posts)
            /\ resp' = Response("delete_post", "302", "get_all_posts", "")
    /\ pending' = Answered(s)
    /\ UNCHANGED <<dialect, user, user_seq, post_seq, current_user>>

----------------------------------------------------------------------------
(* Specifications.  The handlers are the same in all of them; each draws the    *)
(* inputs of the handlers its properties are about from the full input sets and *)
(* logs users in with one password.                                             *)

\* the accounts of the specifications about posts and comments: the first to
\* register is the privileged one
AccountEmails == {"a@x.com", "b@x.com"}

Accounts(s) ==
    \/ \E email \in AccountEmails, name \in Names : RegisterCheck(s, TRUE, email, "pw1", name)
    \/ RegisterInsert(s, "Zq3xYb1K")
    \/ \E email \in AccountEmails : Login(s, TRUE, email, "pw1")
    \/ Logout(s)

\* registration, login and logout
NextAuth ==
    \E s \in Sessions :
        \/ \E valid \in BOOLEAN, email \in Emails, password \in Passwords, name \in Names :
                RegisterCheck(s, valid, email, password, name)
        \/ \E salt \in Salts : RegisterInsert(s, salt)
        \/ \E valid \in BOOLEAN, email \in Emails, password \in Passwords :
                Login(s, valid, email, password)
        \/ Logout(s)

SpecAuth == Init /\ [][NextAuth]_vars

\* the posts: created, edited, deleted and viewed by any principal
NextPosts ==
    \E s \in Sessions :
        \/ Accounts(s)
        \/ \E index \in PostIds, text \in CommentTexts : ShowPostRead(s, index, FALSE, text)
        \/ \E valid \in BOOLEAN, form \in PostForms, now \in {CHOOSE c \in Clock : TRUE} :
                MakePost(s, valid, form, now)
        \/ \E post_id \in PostIds, valid \in BOOLEAN, form \in PostForms, author \in AuthorData :
                EditPostRead(s, post_id, valid, form, author)
        \/ EditPostCommit(s)
        \/ \E post_id \in PostIds : DeletePostRead(s, post_id)
        \/ DeletePostSelect(s)
        \/ DeletePostWrite(s)

SpecPosts == Init /\ [][NextPosts]_vars

\* the posts created on different days, edited and deleted, by any principal
NextEdit ==
    \E s \in Sessions :
        \/ Accounts(s)
        \/ \E form \in PostForms, now \in Clock : MakePost(s, TRUE, form, now)
        \/ \E post_id \in PostIds, form \in PostForms, author \in AuthorData :
                EditPostRead(s, post_id, TRUE, form, author)
        \/ EditPostCommit(s)
        \/ \E post_id \in PostIds : DeletePostRead(s, post_id)
        \/ DeletePostSelect(s)
        \/ DeletePostWrite(s)

SpecEdit == Init /\ [][NextEdit]_vars

\* the comments: submitted by any principal to a post that is created and deleted
NextComments ==
    \E s \in Sessions :
        \/ Accounts(s)
        \/ \E index \in PostIds, submitted \in BOOLEAN, text \in CommentTexts :
                ShowPostRead(s, index, submitted, text)
        \/ ShowPostCommit(s)
        \/ \E form \in {CHOOSE f \in PostForms : TRUE}, now \in {CHOOSE c \in Clock : TRUE} :
                MakePost(s, TRUE, form, now)
        \/ \E post_id \in PostIds : DeletePostRead(s, post_id)
        \/ DeletePostSelect(s)
        \/ DeletePostWrite(s)

SpecComments == Init /\ [][NextComments]_vars

----------------------------------------------------------------------------
(* Properties *)

IsAdmin(principal) == principal.is_authenticated /\ principal.id = AdminId

EmailExists(email) == \E i \in DOMAIN user : user[i].email = email

UserWithEmail(email) == CHOOSE i \in DOMAIN user : user[i].email = email

\* password is the one the user registered with: register stored its hash
IsPasswordOf(uid, password) ==
    user[uid].password = generate_password_hash(password, user[uid].password.salt)

NoDuplicateEmail ==
    \A i, j \in DOMAIN user : user[i].email = user[j].email => i = j

AlreadyRegistered ==
    Response("register", "302", "login", "This email has been registered. Login with the email")

\* a request of session s to one of the handlers admin_only wraps
GatedRequest(s) ==
    \/ \E valid \in BOOLEAN, form \in PostForms, now \in Clock : MakePost(s, valid, form, now)
    \/ \E post_id \in PostIds, valid \in BOOLEAN, form \in PostForms, author \in AuthorData :
            EditPostRead(s, post_id, valid, form, author)
    \/ \E post_id \in PostIds : DeletePostRead(s, post_id)

\* C1: make_post, edit_post and delete_post answer every caller other than the
\* authenticated principal with id 1, anonymous callers included, with 403
\* Forbidden and leave the posts as they were.
C1_AdminGate ==
    [][\A s \in Sessions :
        (GatedRequest(s) /\ ~IsAdmin(current_user[s]))
            => (resp'.status = "403" /\ blog_posts' = blog_posts)]_vars

\* C2: no two User rows ever share an email; a register request that arrives
\* when a User row already has its email is answered with the already-registered
\* notice and the redirect to login, goes no further, and leaves the user table
\* as it was.
C2_DuplicateEmail ==
    [][/\ NoDuplicateEmail'
       /\ \A s \in Sessions, email \in Emails, password \in Passwords, name \in Names :
            (RegisterCheck(s, TRUE, email, password, name) /\ EmailExists(email))
                => (user' = user /\ resp' = AlreadyRegistered /\ pending' = pending)]_vars

\* a second registration with a registered email was refused
C2_Witness ==
    /\ resp = AlreadyRegistered
    /\ Cardinality(DOMAIN user) = 1

\* C3: login with a registered email and the password registered with it makes
\* that user the principal of the session; with another password it answers
\* "Password incorrect" and with an unregistered email "This email does not
\* exist", and in both cases every session keeps its principal.
C3_Login ==
    [][\A s \in Sessions, email \in Emails, password \in Passwords :
        Login(s, TRUE, email, password) =>
            IF ~EmailExists(email)
            THEN /\ current_user' = current_user
                 /\ resp' = Response("login", "302", "login",
                                      "This email does not exist. Please try again")
            ELSE IF IsPasswordOf(UserWithEmail(email), password)
            THEN /\ current_user' =
                        [current_user EXCEPT ![s] = LoggedIn(UserWithEmail(email))]
                 /\ resp' = Response("login", "302", "get_all_posts", "")
            ELSE /\ current_user' = current_user
                 /\ resp' = Response("login", "200", "login.html",
                                      "Password incorrect. Please try again")]_vars

\* a wrong password was refused while a session is logged in
C3_Witness ==
    /\ resp.flash = "Password incorrect. Please try again"
    /\ \E s \in Sessions : current_user[s] = LoggedIn(2)

\* an anonymous session submits a comment: no row is stored, the answer is the
\* redirect to login
AnonymousCommentRefused(s) ==
    \A index \in PostIds, text \in CommentTexts :
        (ShowPostRead(s, index, TRUE, text) /\ ~current_user[s].is_authenticated)
            => /\ comments' = comments
               /\ pending' = pending
               /\ resp'.status = "302" /\ resp'.detail = "login"

\* the comment of the request of session s is stored: one more row, by the
\* session's user, its post the post the request read, the other rows as they were
CommentStored(s) ==
    /\ Len(comments') = Len(comments) + 1
    /\ SubSeq(comments', 1, Len(comments)) = comments
    /\ comments'[Len(comments')].author_id = Ref(current_user[s].id)
    /\ comments'[Len(comments')].text = pending[s].text
    /\ pending[s].requested_post # NULL
            => /\ comments'[Len(comments')].post_id = Ref(pending[s].index)
               /\ pending[s].index \in DOMAIN blog_posts'

\* C4: a comment submitted by an anonymous session stores no row and
\* redirects to login; submitted by a logged-in user it appends exactly one
\* row, whose author is that user and whose post is the requested post, and
\* changes no other comment row.
C4_Comment ==
    [][\A s \in Sessions :
        /\ AnonymousCommentRefused(s)
        /\ ShowPostCommit(s) => CommentStored(s)]_vars

\* C5: a deleted post is no longer in get_all_posts, and every later request
\* for its id (show_post, edit_post, delete_post) is answered 404 Not Found.
C5_DeletedIsNotFound ==
    [][\A s \in Sessions, post_id \in PostIds :
        /\ (DeletePostWrite(s) /\ pending[s].post_id = post_id /\ resp'.status = "302")
                => \A posts \in get_all_posts' : \A i \in DOMAIN posts : posts[i].id # post_id
        /\ post_id \in deleted
                => /\ (\E text \in CommentTexts : ShowPostRead(s, post_id, FALSE, text))
                        => resp'.status = "404"
                   /\ (IsAdmin(current_user[s]) /\ DeletePostRead(s, post_id))
                        => resp'.status = "404"
                   /\ (IsAdmin(current_user[s])
                         /\ \E valid \in BOOLEAN, form \in PostForms, author \in AuthorData :
                                EditPostRead(s, post_id, valid, form, author))
                        => resp'.status = "404"]_vars

\* the rows differ in nothing but title, subtitle, img_url, author and body
OnlyEditableFieldsDiffer(before, after) ==
    before = [after EXCEPT !.title = before.title, !.subtitle = before.subtitle,
                           !.img_url = before.img_url, !.author_id = before.author_id,
                           !.body = before.body]

\* C6: make_post stamps the new post with the formatted current date; from
\* then on no request changes the date of a post, and the commit of an
\* edit_post request changes nothing but title, subtitle, img_url, author and
\* body of one post.
C6_PublishDate ==
    [][/\ \A i \in DOMAIN blog_posts \cap DOMAIN blog_posts' :
            blog_posts'[i].date = blog_posts[i].date
       /\ resp'.op = "make_post" =>
            \A s \in Sessions, form \in PostForms, now \in Clock :
                MakePost(s, TRUE, form, now) =>
                    \A i \in DOMAIN blog_posts' \ DOMAIN blog_posts :
                        blog_posts'[i].date = Strftime(now)
       /\ resp'.op = "edit_post" => \A s \in Sessions : EditPostCommit(s) =>
            /\ DOMAIN blog_posts' = DOMAIN blog_posts
            /\ \A i \in DOMAIN blog_posts : OnlyEditableFieldsDiffer(blog_posts[i], blog_posts'[i])
            /\ \A i, j \in DOMAIN blog_posts :
                  (blog_posts'[i] # blog_posts[i] /\ blog_posts'[j] # blog_posts[j]) => i = j]_vars

\* a post was edited: it has the second user as author, which no creation gives it
C6_Witness ==
    /\ resp = Response("edit_post", "302", "show_post", "")
    /\ \E i \in DOMAIN blog_posts :
          /\ blog_posts[i].author_id = Ref(2)
          /\ blog_posts[i].date = "April 05, 2024"

\* C7: register leaves the principal of every session as it was, both when it
\* checks the email and when it stores the user or fails to.
C7_RegisterKeepsSession ==
    [][\A s \in Sessions :
        /\ \A valid \in BOOLEAN, email \in Emails, password \in Passwords, name \in Names :
                RegisterCheck(s, valid, email, password, name) => current_user' = current_user
        /\ \A salt \in Salts :
                RegisterInsert(s, salt) => current_user' = current_user]_vars

\* a registration succeeded and no session is logged in
C7_Witness ==
    /\ resp = Response("register", "302", "get_all_posts", "")
    /\ Cardinality(DOMAIN user) = 2
    /\ \A s \in Sessions : current_user[s] = AnonymousUser

\* a login of session s that succeeds
LoginSucceeds(s) ==
    \E email \in Emails, password \in Passwords :
        /\ Login(s, TRUE, email, password)
        /\ EmailExists(email)
        /\ current_user'[s] = LoggedIn(UserWithEmail(email))

\* logout of an anonymous session is answered 401 and the session stays anonymous
AnonymousLogoutRefused(s) ==
    (Logout(s) /\ current_user[s] = AnonymousUser)
        => (resp'.status = "401" /\ current_user'[s] = AnonymousUser)

\* C8 as stated: a session leaves Anonymous only by a successful login and
\* leaves Authenticated(p) only by logout, to Anonymous; logout of an anonymous
\* session is refused.
C8_StateMachine ==
    [][\A s \in Sessions :
        /\ (current_user[s] = AnonymousUser /\ current_user'[s] # AnonymousUser)
                => LoginSucceeds(s)
        /\ (current_user[s] # AnonymousUser /\ current_user'[s] # current_user[s])
                => (Logout(s) /\ current_user'[s] = AnonymousUser)
        /\ AnonymousLogoutRefused(s)]_vars

\* C8 amended: a session leaves Anonymous only by a successful login; it
\* leaves Authenticated(p) only by logout, to Anonymous, or by a successful
\* login as another user, directly to that user; logout of an anonymous
\* session is answered 401 and the session stays anonymous.
C8_StateMachineWithRelogin ==
    [][\A s \in Sessions :
        /\ (current_user[s] = AnonymousUser /\ current_user'[s] # AnonymousUser)
                => LoginSucceeds(s)
        /\ (current_user[s] # AnonymousUser /\ current_user'[s] # current_user[s])
                => \/ Logout(s) /\ current_user'[s] = AnonymousUser
                   \/ LoginSucceeds(s)
        /\ AnonymousLogoutRefused(s)]_vars

\* a session went from Anonymous to Authenticated and back while the other stays logged in
C8_Witness ==
    /\ resp = Response("logout", "302", "get_all_posts", "")
    /\ current_user["browser1"] = AnonymousUser
    /\ current_user["browser2"] = LoggedIn(1)

\* C9: with register requests interleaved, no two User rows ever share an
\* email: the insert of a request whose email was registered after its check
\* is rejected by the unique constraint (IntegrityError) and stores nothing.
C9_RegisterRace ==
    [][/\ NoDuplicateEmail'
       /\ \A s \in Sessions, salt \in Salts :
            (RegisterInsert(s, salt) /\ EmailExists(pending[s].email))
                => /\ user' = user
                   /\ resp' = Response("register", "500", "IntegrityError", "")]_vars

\* both requests passed the check, one stored the row, the other was rejected
C9_Witness ==
    /\ resp = Response("register", "500", "IntegrityError", "")
    /\ Cardinality(DOMAIN user) = 1
    /\ \A s \in Sessions : pending[s] = NoRequest

\* C10: every stored comment references one existing post and one existing user.
C10_CommentReferences ==
    \A i \in 1..Len(comments) :
        /\ \E p \in DOMAIN blog_posts : comments[i].post_id = Ref(p)
        /\ \E u \in DOMAIN user : comments[i].author_id = Ref(u)

====
